---- MODULE Spec2Model ----
(***************************************************************************)
(* RestClient orchestration layer of the ONTAP REST driver.                *)
(*                                                                         *)
(* One RestClient runs one operation at a time (the layer has no           *)
(* concurrency of its own).  Every remote call is one step whose response  *)
(* the storage controller chooses; the local code that follows a response  *)
(* is part of the same step unless a label says otherwise.                 *)
(***************************************************************************)
EXTENDS Integers, Sequences, FiniteSets, TLC

(***************************************************************************)
(* Bounds of the environment (not program constants).                      *)
(***************************************************************************)
\* most requests a list operation is served before the controller runs out of pages
MaxRequests == 3
\* the same for a lookup by name inside a larger operation, which matches few records
MaxLookupRequests == 2
\* longest time, in seconds, one job-status or volume lookup round trip takes
MaxLatency == 1
\* fetches and checks are counted up to here
MaxCounted == 3

(***************************************************************************)
(* Values.  A nil pointer is a sentinel of the pointee's type.             *)
(***************************************************************************)
NilStr == "<nil>"
NilNum == -1

\* models.Href: Href *string
NilNext == [present |-> FALSE, href |-> NilStr]
Hrefs == {NilStr, "", "h1", "h2"}
ServedHrefs == {"", "h1", "h2"}
NextLinks == {NilNext} \cup {[present |-> TRUE, href |-> h] : h \in ServedHrefs}

\* <Collection>ResponseInlineLinks: Next *Href
NilLinks == [present |-> FALSE, next |-> NilNext]
LinksSet == {NilLinks} \cup {[present |-> TRUE, next |-> n] : n \in NextLinks}

\* one record of a collection (volume, SVM, quota rule, ...): Name, UUID *string
NilRec == [present |-> FALSE, name |-> NilStr, uuid |-> NilStr]
Rec(n, u) == [present |-> TRUE, name |-> n, uuid |-> u]
Records == {NilRec, Rec("n1", "u1"), Rec("n1", NilStr), Rec(NilStr, "u2")}

\* what a lookup by name returns: (record, err)
Found(v, err) == [volume |-> v, err |-> err]
NotLooked == Found(NilRec, "none")

\* the record slices one page can carry: a nil slice, or at most one record
RecLists == {<<>>} \cup {<<r>> : r \in Records}

\* <Collection>Response: NumRecords *int64, records slice, Links
NilPayload == [present |-> FALSE, num |-> NilNum, recsNil |-> TRUE, recs |-> <<>>, links |-> NilLinks]
Payloads ==
    {NilPayload} \cup
    {[present |-> TRUE, num |-> n, recsNil |-> rn, recs |-> rs, links |-> l] :
        n \in {NilNum, 0, 1}, rn \in BOOLEAN, rs \in RecLists, l \in LinksSet}

\* a payload the controller can send: records come with their count, and the
\* count counts them unless they are withheld (return_records=false)
WellFormed(p) ==
    /\ p.present =>
        /\ (p.recsNil => p.recs = <<>>)
        /\ (p.num = NilNum => p.recsNil)
        /\ (~p.recsNil => Len(p.recs) = p.num)

\* what a <Collection>Get call returns: (result, err)
ErrResponse == [err |-> TRUE, nonNil |-> FALSE, payload |-> NilPayload]
NilResponse == [err |-> FALSE, nonNil |-> FALSE, payload |-> NilPayload]
OkResponse(p) == [err |-> FALSE, nonNil |-> TRUE, payload |-> p]
Responses ==
    {ErrResponse, NilResponse} \cup {OkResponse(p) : p \in {q \in Payloads : WellFormed(q)}}

(***************************************************************************)
(* Pure helpers.                                                           *)
(***************************************************************************)
\* reflect.Value.String() on the Href field, whose kind is Ptr, not String:
\* "<T Value>" with T the field's type, whatever the pointer holds
ReflectString(href) == "<*string Value>"

\* HasNextLink: every reflect call on a nil pointer panics and the deferred
\* recover turns the panic into false
HasNextLink(p) ==
    IF ~p.present THEN FALSE
    ELSE IF ~p.links.present THEN FALSE
    ELSE IF ~p.links.next.present THEN FALSE
    ELSE ReflectString(p.links.next.href) # ""

\* append(a, b...) on slices that may be nil
AppendNil(aNil, bRecs) == aNil /\ bRecs = <<>>

\* the merge with the follow-up page's records put in front
MergePage_Prepend(p, q) ==
    [p EXCEPT !.num = (IF p.num = NilNum THEN 0 ELSE p.num) + q.num,
              !.recs = q.recs \o p.recs,
              !.recsNil = AppendNil(p.recsNil, q.recs)]

\* the merge of one follow-up page into the first page's payload
MergePage(p, q) ==
    [p EXCEPT !.num = (IF p.num = NilNum THEN 0 ELSE p.num) + q.num,
              !.recs = p.recs \o q.recs,
              !.recsNil = AppendNil(p.recsNil, q.recs)]

\* the query a request carries: ParamWrapper.WriteToRequest overrides the
\* original parameters only with a non-empty href
RequestQuery(next) ==
    IF ~next.present \/ next.href = NilStr \/ next.href = "" THEN "original"
    ELSE next.href

\* the query parameters of a request, by name; NilStr for one that is not set
ParamNames == {"fields", "name", "max_records", "start.uuid"}
NoParams == [k \in ParamNames |-> NilStr]

\* what the original parameters of a list operation write: SetFields and the
\* name pattern; MaxRecords is left unset
OriginalParams == [NoParams EXCEPT !["fields"] = "**", !["name"] = "*"]

\* url.Parse and url.ParseQuery on the hrefs the controller sends:
\*   "h1" is /api/storage/volumes?start.uuid=u1&fields=%2A%2A&name=%2A
\*   "h2" is /api/storage/volumes?start.uuid=u2&fields=uuid&max_records=1
\* the values come out unescaped; a parameter the URL does not name is NilStr
ParseQuery(href) ==
    IF href = "h1"
    THEN [NoParams EXCEPT !["start.uuid"] = "u1", !["fields"] = "**", !["name"] = "*"]
    ELSE IF href = "h2"
    THEN [NoParams EXCEPT !["start.uuid"] = "u2", !["fields"] = "uuid", !["max_records"] = "1"]
    ELSE NoParams

\* WriteToRequest that writes the next link's parameters in place of the
\* original ones
WriteToRequest_LinkOnly(params, next) ==
    IF RequestQuery(next) = "original" THEN params
    ELSE ParseQuery(RequestQuery(next))

\* ParamWrapper.WriteToRequest: the original parameters, then SetQueryParam
\* for every parameter of the next link's query
WriteToRequest(params, next) ==
    IF RequestQuery(next) = "original" THEN params
    ELSE LET m == ParseQuery(RequestQuery(next)) IN
         [k \in ParamNames |-> IF m[k] # NilStr THEN m[k] ELSE params[k]]

\* WithNextLink(next) applied to an operation: the parameters it sends
WithNextLink(params, next) ==
    IF ~next.present THEN params
    ELSE WriteToRequest(params, next)

(***************************************************************************)
(* State.                                                                  *)
(***************************************************************************)
VARIABLES
    pc,       \* where the running operation stands; "idle" between operations
    op,       \* the operation in progress and its arguments
    ret,      \* what the operation returned; "none" while it runs; an error (or
              \* "nil"), or the tuple of values for QtreeCount and QtreeExists
    calls,    \* the remote calls the operation issued, in order
    lst,      \* frame of the pagination loop of a list operation
    poll,     \* frame of PollJobStatus: job handle, backoff, what the fetches reported
    wait,     \* frame of waitForVolume / waitForFlexgroup: backoff, existence checks
    found,    \* what the lookup by name returned: the record and the error
    client,   \* RestClient fields: OntapVersion, svmName, svmUUID
    config,   \* OntapStorageDriverConfig.SVM
    seen      \* history of the client: first version string a call returned

vars == <<pc, op, ret, calls, lst, poll, wait, found, client, config, seen>>

(***************************************************************************)
(* The call log.  Reads that repeat (a follow-up page, another poll of the *)
(* same job) are logged once per run; every mutating request is logged.    *)
(***************************************************************************)
\* arg: the UUID a mutating request addresses, the style a volume listing asks for
Call(api, arg) == [api |-> api, arg |-> arg]
ReadApis == {"CollectionGet", "JobGet", "ClusterGet"}
Log(log, c) ==
    IF c.api \in ReadApis /\ Len(log) > 0 /\ log[Len(log)] = c THEN log
    ELSE Append(log, c)
Count(log, api) == Cardinality({i \in 1..Len(log) : log[i].api = api})
FirstIndex(log, api) ==
    IF Count(log, api) = 0 THEN 0
    ELSE CHOOSE i \in 1..Len(log) : log[i].api = api /\ \A j \in 1..(i-1) : log[j].api # api

(***************************************************************************)
(* Pagination: the loop every list operation repeats                       *)
(* (getAllVolumePayloadRecords, SnapshotList, IgroupList, LunList,         *)
(* SvmList, QtreeList, QuotaGetEntry, ...).                                *)
(***************************************************************************)
NoOut == [returned |-> FALSE, err |-> FALSE, nonNil |-> FALSE, payload |-> NilPayload]
Out(err, nonNil, p) == [returned |-> TRUE, err |-> err, nonNil |-> nonNil, payload |-> p]

IdleLst ==
    [result |-> NilPayload, nextLink |-> NilNext, out |-> NoOut,
     query |-> NilStr, sent |-> NoParams,
     nReq |-> 0, lastReq |-> NilNext, prevNext |-> NilNext, nNext |-> 0,
     pagesRecs |-> <<>>, pagesNum |-> 0, counted |-> TRUE, followCounted |-> TRUE]

\* the frame of a listing of the volumes of one style
VolumeLst(style) == [IdleLst EXCEPT !.query = style]

\* the responses the controller may give to request number n of a listing
\* that is served at most max requests: the last one leads to no further page
Served(n, max) ==
    IF n < max THEN Responses
    ELSE {r \in Responses : ~(r.payload.present /\ r.payload.num # NilNum
                               /\ r.payload.links.present
                               /\ r.payload.links.next.present)}

\* history of the pages received, kept beside the loop's own merge
Received(f, req, resp) ==
    [f EXCEPT !.nReq = f.nReq + 1,
              !.lastReq = req,
              !.sent = WithNextLink(OriginalParams, req),
              !.prevNext = IF resp.nonNil /\ resp.payload.present /\ resp.payload.links.present
                           THEN resp.payload.links.next ELSE NilNext,
              !.nNext = f.nNext + (IF resp.nonNil /\ resp.payload.present
                                      /\ resp.payload.links.present
                                      /\ resp.payload.links.next.present THEN 1 ELSE 0),
              !.pagesRecs = IF resp.nonNil /\ resp.payload.present
                            THEN f.pagesRecs \o resp.payload.recs ELSE f.pagesRecs,
              !.pagesNum = IF resp.nonNil /\ resp.payload.present /\ resp.payload.num # NilNum
                           THEN f.pagesNum + resp.payload.num ELSE f.pagesNum,
              !.counted = f.counted /\ ~resp.err
                          /\ resp.nonNil /\ resp.payload.present /\ resp.payload.num # NilNum,
              !.followCounted = f.followCounted
                          /\ (f.nReq = 0 \/ resp.err
                              \/ (resp.nonNil /\ resp.payload.present
                                  /\ resp.payload.num # NilNum))]

\* the first request of a list operation and what follows its response
FirstPage(f, resp) ==
    IF resp.err THEN [f EXCEPT !.out = Out(TRUE, FALSE, NilPayload)]
    ELSE IF ~resp.nonNil THEN [f EXCEPT !.out = Out(FALSE, FALSE, NilPayload)]
    ELSE IF HasNextLink(resp.payload)
         THEN [f EXCEPT !.result = resp.payload, !.nextLink = resp.payload.links.next]
         ELSE [f EXCEPT !.result = resp.payload, !.out = Out(FALSE, TRUE, resp.payload)]

\* the NextLoop without the final nextLink = resultNext.Payload.Links.Next
NextPage_StaleLink(f, resp) ==
    IF resp.err THEN [f EXCEPT !.out = Out(TRUE, FALSE, NilPayload)]
    ELSE IF ~resp.nonNil \/ ~resp.payload.present \/ resp.payload.num = NilNum
         THEN [f EXCEPT !.out = Out(FALSE, TRUE, f.result)]
    ELSE LET merged == MergePage(f.result, resp.payload) IN
         IF ~HasNextLink(resp.payload)
         THEN [f EXCEPT !.result = merged, !.out = Out(FALSE, TRUE, merged)]
         ELSE [f EXCEPT !.result = merged]

\* one turn of the NextLoop: the response to the request made WithNextLink(nextLink)
NextPage(f, resp) ==
    IF resp.err THEN [f EXCEPT !.out = Out(TRUE, FALSE, NilPayload)]
    ELSE IF ~resp.nonNil \/ ~resp.payload.present \/ resp.payload.num = NilNum
         THEN [f EXCEPT !.out = Out(FALSE, TRUE, f.result)]
    ELSE LET merged == MergePage(f.result, resp.payload) IN
         IF ~HasNextLink(resp.payload)
         THEN [f EXCEPT !.result = merged, !.out = Out(FALSE, TRUE, merged)]
         ELSE [f EXCEPT !.result = merged, !.nextLink = resp.payload.links.next]

\* the listing's frame after its caller took the result
Popped(f) == [IdleLst EXCEPT !.out = [f.out EXCEPT !.payload = NilPayload]]

Limit(o) ==
    IF o.name \in {"List", "QtreeCount", "QtreeExists"} THEN MaxRequests
    ELSE MaxLookupRequests

ListFirst ==
    /\ pc = "list_first"
    /\ \E resp \in Served(lst.nReq + 1, Limit(op)) :
        LET f == FirstPage(Received(lst, NilNext, resp), resp) IN
        /\ lst' = f
        /\ pc' = IF f.out.returned THEN "list_ret" ELSE "list_next"
    /\ calls' = Log(calls, Call("CollectionGet", lst.query))
    /\ UNCHANGED <<op, ret, poll, wait, found, client, config, seen>>

ListNext ==
    /\ pc = "list_next"
    /\ \E resp \in Served(lst.nReq + 1, Limit(op)) :
        LET f == NextPage(Received(lst, lst.nextLink, resp), resp) IN
        /\ lst' = f
        /\ pc' = IF f.out.returned THEN "list_ret" ELSE "list_next"
    /\ calls' = Log(calls, Call("CollectionGet", lst.query))
    /\ UNCHANGED <<op, ret, poll, wait, found, client, config, seen>>

(***************************************************************************)
(* Exponential backoff as PollJobStatus and waitForVolume configure it.    *)
(* Time is in whole seconds.                                               *)
(***************************************************************************)
InitialInterval == 1
Multiplier == 2
\* RandomizationFactor 0.1, in percent
RandomizationPct == 10
\* backoff.NewExponentialBackOff() default
MaxInterval == 60
\* MaxElapsedTime left at zero minutes, which the policy takes for no cap
JobMaxElapsedTime_Unset == 0 * 60
\* MaxElapsedTime of PollJobStatus (2 minutes) and of waitForVolume (1 minute)
JobMaxElapsedTime == 120
VolumeMaxElapsedTime == 60
\* time stops being counted here, far past both caps
Horizon == 400

Stop == -1
Min(a, b) == IF a < b THEN a ELSE b

\* the interval the policy draws the next wait from, by its two ends
RandomizedIntervals(interval) ==
    LET delta == (interval * RandomizationPct) \div 100 IN {interval - delta, interval + delta}

\* ExponentialBackOff.NextBackOff: Stop once the wait would pass the cap;
\* a cap of 0 is no cap
NextBackOff(elapsed, randomized, maxElapsed) ==
    IF maxElapsed # 0 /\ elapsed + randomized > maxElapsed THEN Stop ELSE randomized

incrementCurrentInterval(interval) ==
    IF interval * Multiplier >= MaxInterval THEN MaxInterval ELSE interval * Multiplier

\* backoff.RetryNotify after one run of the operation that took `latency`:
\* a nil error ends the loop, any other error is retried until Stop
RetryNotify(b, opErr, latency, randomized, maxElapsed) ==
    LET now == Min(b.elapsed + latency, Horizon)
        next == NextBackOff(now, randomized, maxElapsed) IN
    IF opErr = "nil" THEN [b EXCEPT !.elapsed = now, !.out = "nil"]
    ELSE IF next = Stop THEN [b EXCEPT !.elapsed = now, !.stopped = TRUE, !.out = opErr]
    ELSE [b EXCEPT !.elapsed = Min(now + next, Horizon),
                   !.currentInterval = incrementCurrentInterval(b.currentInterval)]

(***************************************************************************)
(* Jobs.                                                                   *)
(***************************************************************************)
JobStateSuccess == "success"
JobStateFailure == "failure"
JobStatePaused == "paused"
JobStateRunning == "running"
JobStateQueued == "queued"
TerminalStates == {JobStateSuccess, JobStateFailure}
NonTerminalStates == {JobStatePaused, JobStateRunning, JobStateQueued}
JobStates == TerminalStates \cup NonTerminalStates

\* how the controller's job moves between two fetches: a finished job stays finished
JobMoves(j) == IF j \in TerminalStates THEN {j} ELSE JobStates

\* what JobGet returns for a job in state j: an error, a nil result, or a
\* payload whose State is nil, unrecognised, or j
JobResponses(j) == {"error", "nilresult", NilStr, "bogus", j}

\* the JobLinkResponse a mutating request hands back
JobLinks == {"nilpayload", "nojob", "nouuid", "job"}

\* IsJobFinished without the default case: an unrecognised state is "not done"
IsJobFinished_NoDefault(payload, resp) ==
    IF payload = "nilpayload" THEN <<FALSE, "payload is nil">>
    ELSE IF payload = "nojob" THEN <<FALSE, "payload's Job is nil">>
    ELSE IF payload = "nouuid" THEN <<FALSE, "payload's Job uuid is nil">>
    ELSE IF resp = "error" THEN <<FALSE, "JobGet error">>
    ELSE IF resp = "nilresult" THEN <<FALSE, "panic">>
    ELSE IF resp = NilStr THEN <<FALSE, "unexpected nil job state">>
    ELSE IF resp \in {JobStateSuccess, JobStateFailure} THEN <<TRUE, "nil">>
    ELSE <<FALSE, "nil">>

\* IsJobFinished with paused among the terminal states
IsJobFinished_PausedTerminal(payload, resp) ==
    IF payload # "job" THEN <<FALSE, "payload is nil">>
    ELSE IF resp = "error" THEN <<FALSE, "JobGet error">>
    ELSE IF resp = "nilresult" THEN <<FALSE, "panic">>
    ELSE IF resp = NilStr THEN <<FALSE, "unexpected nil job state">>
    ELSE IF resp \in {JobStateSuccess, JobStateFailure, JobStatePaused} THEN <<TRUE, "nil">>
    ELSE IF resp \in {JobStateRunning, JobStateQueued} THEN <<FALSE, "nil">>
    ELSE <<FALSE, "unexpected job state">>

\* IsJobFinished: <<isDone, err>>; "panic" when the fetch yields no result to read
IsJobFinished(payload, resp) ==
    IF payload = "nilpayload" THEN <<FALSE, "payload is nil">>
    ELSE IF payload = "nojob" THEN <<FALSE, "payload's Job is nil">>
    ELSE IF payload = "nouuid" THEN <<FALSE, "payload's Job uuid is nil">>
    ELSE IF resp = "error" THEN <<FALSE, "JobGet error">>
    ELSE IF resp = "nilresult" THEN <<FALSE, "panic">>
    ELSE IF resp = NilStr THEN <<FALSE, "unexpected nil job state">>
    ELSE IF resp = JobStateSuccess THEN <<TRUE, "nil">>
    ELSE IF resp = JobStateFailure THEN <<TRUE, "nil">>
    ELSE IF resp = JobStatePaused THEN <<FALSE, "nil">>
    ELSE IF resp = JobStateRunning THEN <<FALSE, "nil">>
    ELSE IF resp = JobStateQueued THEN <<FALSE, "nil">>
    ELSE <<FALSE, "unexpected job state">>

\* the closure PollJobStatus retries
checkJobStatus(payload, resp) ==
    LET r == IsJobFinished(payload, resp) IN
    IF r[2] # "nil" THEN r[2]
    ELSE IF ~r[1] THEN "job not yet done"
    ELSE "nil"

\* the final switch with failure falling into the success case
JobResult_FailureIsNil(resp) ==
    IF resp = "error" THEN "JobGet error"
    ELSE IF resp = "nilresult" THEN "missing job result"
    ELSE IF resp = NilStr THEN "unexpected nil job state"
    ELSE IF resp \in {JobStateSuccess, JobStateFailure} THEN "nil"
    ELSE "unexpected job state"

\* PollJobStatus after the retry loop ended with nil: the result of the last JobGet
JobResult(resp) ==
    IF resp = "error" THEN "JobGet error"
    ELSE IF resp = "nilresult" THEN "missing job result"
    ELSE IF resp = NilStr THEN "unexpected nil job state"
    ELSE IF resp = JobStateSuccess THEN "nil"
    ELSE IF resp = JobStateFailure THEN "RestError"
    ELSE "unexpected job state"

IdlePoll ==
    [payload |-> "none", job |-> JobStateQueued, elapsed |-> 0, currentInterval |-> 0,
     fetches |-> 0, lastState |-> "none", final |-> FALSE, sawTerminal |-> FALSE,
     stopped |-> FALSE, isDone |-> FALSE, out |-> "none"]

\* PollJobStatus up to its first fetch
PollEntry(payload) ==
    IF payload = "nilpayload" THEN [IdlePoll EXCEPT !.payload = payload, !.out = "panic"]
    ELSE IF payload = "nojob" THEN [IdlePoll EXCEPT !.payload = payload, !.out = "missing job result"]
    ELSE IF payload = "nouuid"
         THEN [IdlePoll EXCEPT !.payload = payload, !.out = "missing job uuid for result"]
    ELSE [IdlePoll EXCEPT !.payload = payload, !.currentInterval = InitialInterval]

IdleWait ==
    [elapsed |-> 0, currentInterval |-> 0, checks |-> 0, sawOne |-> FALSE,
     stopped |-> FALSE, out |-> "none"]

\* a frame after its function returned: the locals are gone, what it
\* returned and what was observed of the job stay on record
Returned(b) ==
    [IdlePoll EXCEPT !.payload = b.payload, !.job = b.job, !.lastState = b.lastState,
                     !.final = b.final, !.sawTerminal = b.sawTerminal,
                     !.stopped = b.stopped, !.out = b.out]

PollPc(b) == IF b.out = "none" THEN "poll_fetch" ELSE "poll_ret"

\* one run of checkJobStatus inside backoff.RetryNotify
PollFetch ==
    /\ pc = "poll_fetch"
    /\ \E j \in JobMoves(poll.job), latency \in 0..MaxLatency,
          randomized \in RandomizedIntervals(poll.currentInterval) :
        \E resp \in JobResponses(j) :
            LET err == checkJobStatus(poll.payload, resp)
                seenIt == [poll EXCEPT !.job = j, !.fetches = Min(poll.fetches + 1, MaxCounted),
                                       !.lastState = resp,
                                       !.sawTerminal = poll.sawTerminal \/ resp \in TerminalStates]
                b == IF err = "panic" THEN [seenIt EXCEPT !.out = "panic"]
                     ELSE RetryNotify(seenIt, err, latency, randomized, JobMaxElapsedTime) IN
            /\ poll' = IF b.out = "nil" THEN [b EXCEPT !.out = "none"] ELSE b
            /\ pc' = IF b.out = "nil" THEN "poll_final"
                     ELSE IF b.out = "none" THEN "poll_fetch" ELSE "poll_ret"
    /\ calls' = Log(calls, Call("JobGet", NilStr))
    /\ UNCHANGED <<op, ret, lst, wait, found, client, config, seen>>

\* the JobGet after the loop and the switch on its state
PollFinal ==
    /\ pc = "poll_final"
    /\ \E j \in JobMoves(poll.job) :
        \E resp \in JobResponses(j) :
            poll' = [poll EXCEPT !.job = j, !.lastState = resp, !.final = TRUE,
                                 !.out = JobResult(resp)]
    /\ pc' = "poll_ret"
    /\ calls' = Log(calls, Call("JobGet", NilStr))
    /\ UNCHANGED <<op, ret, lst, wait, found, client, config, seen>>

(***************************************************************************)
(* List operations (VolumeList, SnapshotList, IgroupList, LunList,         *)
(* SvmList, QtreeList, ...): return the merged result or the error.        *)
(***************************************************************************)
Op(name, arg) == [name |-> name, arg |-> arg, vol |-> NilStr]
NoOp == Op("none", NilStr)

StartList ==
    /\ pc = "idle"
    /\ op' = Op("List", NilStr)
    /\ pc' = "list_first"
    /\ ret' = "none"
    /\ calls' = <<>>
    /\ lst' = IdleLst
    /\ poll' = IdlePoll
    /\ wait' = IdleWait
    /\ found' = NotLooked
    /\ UNCHANGED <<client, config, seen>>

\* IsJobFinished called on a job handle: a handle without job or job UUID
\* is refused before any request.  Of (bool, error), poll.isDone is the
\* bool and ret the error
StartIsJobFinished ==
    /\ pc = "idle"
    /\ \E payload \in JobLinks :
        /\ op' = Op("IsJobFinished", payload)
        /\ poll' = [IdlePoll EXCEPT !.payload = payload,
                                    !.isDone = IsJobFinished(payload, NilStr)[1]]
        /\ pc' = IF payload = "job" THEN "job_get" ELSE "done"
        /\ ret' = IF payload = "job" THEN "none" ELSE IsJobFinished(payload, NilStr)[2]
    /\ calls' = <<>>
    /\ lst' = IdleLst
    /\ wait' = IdleWait
    /\ found' = NotLooked
    /\ UNCHANGED <<client, config, seen>>

\* the JobGet of IsJobFinished and the switch on the state it reports
JobFetched ==
    /\ pc = "job_get"
    /\ \E j \in JobStates :
        \E resp \in JobResponses(j) :
            /\ poll' = [poll EXCEPT !.job = j, !.fetches = 1, !.lastState = resp,
                                    !.isDone = IsJobFinished(poll.payload, resp)[1]]
            /\ ret' = IsJobFinished(poll.payload, resp)[2]
    /\ calls' = Log(calls, Call("JobGet", NilStr))
    /\ pc' = "done"
    /\ UNCHANGED <<op, lst, wait, found, client, config, seen>>

\* PollJobStatus called on a job handle
StartPoll ==
    /\ pc = "idle"
    /\ \E payload \in JobLinks :
        /\ op' = Op("PollJobStatus", payload)
        /\ poll' = PollEntry(payload)
        /\ pc' = PollPc(PollEntry(payload))
    /\ ret' = "none"
    /\ calls' = <<>>
    /\ lst' = IdleLst
    /\ wait' = IdleWait
    /\ found' = NotLooked
    /\ UNCHANGED <<client, config, seen>>

PollReturn ==
    /\ pc = "poll_ret"
    /\ op.name = "PollJobStatus"
    /\ ret' = poll.out
    /\ pc' = "done"
    /\ UNCHANGED <<op, calls, lst, poll, wait, found, client, config, seen>>

(***************************************************************************)
(* Volumes by name and style.                                              *)
(***************************************************************************)
VolumeStyleFlexvol == "flexvol"
VolumeStyleFlexgroup == "flexgroup"
Styles == {VolumeStyleFlexvol, VolumeStyleFlexgroup}


\* getVolumeByNameAndStyle on what the listing of online volumes of that
\* name returned: the volume, or nil, or an error; indexing an empty
\* non-nil slice panics
getVolumeByNameAndStyle(out) ==
    IF out.err THEN Found(NilRec, "lookup error")
    ELSE IF ~out.nonNil \/ ~out.payload.present \/ out.payload.num = NilNum \/ out.payload.num = 0
         THEN Found(NilRec, "nil")
    ELSE IF out.payload.num = 1 /\ ~out.payload.recsNil
         THEN IF Len(out.payload.recs) = 0 THEN Found(NilRec, "panic")
              ELSE Found(out.payload.recs[1], "nil")
    ELSE Found(NilRec, "could not find unique volume")

\* checkVolumeExistsByNameAndStyle: <<exists, err>>
checkVolumeExistsByNameAndStyle(out) ==
    LET f == getVolumeByNameAndStyle(out) IN
    IF f.err # "nil" THEN <<FALSE, f.err>>
    ELSE IF ~f.volume.present THEN <<FALSE, "nil">>
    ELSE <<TRUE, "nil">>

\* the same without the check of volume.UUID
sizeLookup_NoUUIDCheck(out) ==
    LET f == getVolumeByNameAndStyle(out) IN
    IF f.err # "nil" THEN f.err
    ELSE IF ~f.volume.present THEN "could not find volume"
    ELSE "nil"

\* setVolumeSizeByNameAndStyle up to the modify request: the error it returns,
\* or "nil" when the request is to be issued
sizeLookup(out) ==
    LET f == getVolumeByNameAndStyle(out) IN
    IF f.err # "nil" THEN f.err
    ELSE IF ~f.volume.present THEN "could not find volume"
    ELSE IF f.volume.uuid = NilStr THEN "could not find volume uuid"
    ELSE "nil"

\* what a mutating request returns: an error, a nil result, or a job handle
Accepted == {"error", "nilresult"} \cup JobLinks

\* VolumeSetSize, FlexGroupSetSize
StartSetSize ==
    /\ pc = "idle"
    /\ \E style \in Styles :
        /\ op' = Op("setVolumeSizeByNameAndStyle", style)
        /\ lst' = VolumeLst(style)
    /\ pc' = "list_first"
    /\ ret' = "none"
    /\ calls' = <<>>
    /\ poll' = IdlePoll
    /\ wait' = IdleWait
    /\ found' = NotLooked
    /\ UNCHANGED <<client, config, seen>>

SetSizeLookup ==
    /\ pc = "list_ret"
    /\ op.name = "setVolumeSizeByNameAndStyle"
    /\ LET err == sizeLookup(lst.out) IN
        /\ found' = getVolumeByNameAndStyle(lst.out)
        /\ ret' = IF err = "nil" THEN "none" ELSE err
        /\ pc' = IF err = "nil" THEN "modify" ELSE "done"
    /\ lst' = Popped(lst)
    /\ UNCHANGED <<op, calls, poll, wait, client, config, seen>>

VolumeModify ==
    /\ pc = "modify"
    /\ calls' = Log(calls, Call("VolumeModify", found.volume.uuid))
    /\ \E resp \in Accepted :
        IF resp = "error" \/ resp = "nilresult"
        THEN /\ ret' = IF resp = "error" THEN "VolumeModify error"
                       ELSE "unexpected response from volume modify"
             /\ pc' = "done"
             /\ poll' = poll
        ELSE /\ ret' = "none"
             /\ poll' = PollEntry(resp)
             /\ pc' = PollPc(PollEntry(resp))
    /\ UNCHANGED <<op, lst, wait, found, client, config, seen>>

SetSizeReturn ==
    /\ pc = "poll_ret"
    /\ op.name = "setVolumeSizeByNameAndStyle"
    /\ ret' = poll.out
    /\ pc' = "done"
    /\ UNCHANGED <<op, calls, lst, poll, wait, found, client, config, seen>>

(***************************************************************************)
(* VolumeCreate, FlexGroupCreate: createVolumeByStyle, then waitForVolume  *)
(* or waitForFlexgroup.                                                    *)
(***************************************************************************)
\* the request is built from the arguments; unix permissions that do not
\* parse end the call before any request
StartCreate ==
    /\ pc = "idle"
    /\ \E style \in Styles, name \in {"", "n1"}, permissionsParse \in BOOLEAN :
        /\ op' = [Op("createVolumeByStyle", style) EXCEPT !.vol = name]
        /\ pc' = IF permissionsParse THEN "create" ELSE "done"
        /\ ret' = IF permissionsParse THEN "none" ELSE "cannot process unix permissions value"
    /\ calls' = <<>>
    /\ lst' = IdleLst
    /\ poll' = IdlePoll
    /\ wait' = IdleWait
    /\ found' = NotLooked
    /\ UNCHANGED <<client, config, seen>>

VolumeCreate ==
    /\ pc = "create"
    /\ calls' = Log(calls, Call("VolumeCreate", NilStr))
    /\ \E resp \in Accepted :
        IF resp = "error" \/ resp = "nilresult"
        THEN /\ ret' = IF resp = "error" THEN "VolumeCreate error"
                       ELSE "unexpected response from volume create"
             /\ pc' = "done"
             /\ poll' = poll
        ELSE /\ ret' = "none"
             /\ poll' = PollEntry(resp)
             /\ pc' = PollPc(PollEntry(resp))
    /\ UNCHANGED <<op, lst, wait, found, client, config, seen>>

\* createVolumeByStyle after PollJobStatus: a polling error is returned,
\* otherwise the wait for the volume begins
CreatePolled ==
    /\ pc = "poll_ret"
    /\ op.name = "createVolumeByStyle"
    /\ IF poll.out # "nil"
       THEN /\ ret' = poll.out
            /\ pc' = "done"
            /\ wait' = wait
       ELSE /\ ret' = "none"
            /\ pc' = "wait_check"
            /\ wait' = [IdleWait EXCEPT !.currentInterval = InitialInterval]
    /\ poll' = Returned(poll)
    /\ UNCHANGED <<op, calls, lst, found, client, config, seen>>

\* checkStatus that passes on the lookup's error and ignores exists
checkStatus_IgnoreExists(existsErr) == existsErr[2]

\* checkStatus of waitForVolume / waitForFlexgroup: the error the retry loop sees
checkStatus(existsErr) ==
    IF ~existsErr[1] THEN "volume does not exist, will continue checking"
    ELSE existsErr[2]

\* the switch on style: waitForFlexgroup checks FlexGroupExists, the default
\* waitForVolume checks VolumeExists
waitStyle(style) ==
    IF style = VolumeStyleFlexgroup THEN VolumeStyleFlexgroup ELSE VolumeStyleFlexvol

WaitPc(b) == IF b.out = "none" THEN "wait_check" ELSE "wait_ret"

\* one run of checkStatus begins: an empty name is answered without a
\* request, any other name by a listing
WaitCheck ==
    /\ pc = "wait_check"
    /\ IF op.vol = ""
       THEN \E randomized \in RandomizedIntervals(wait.currentInterval) :
            LET b == RetryNotify([wait EXCEPT !.checks = Min(wait.checks + 1, MaxCounted)],
                                 checkStatus(<<FALSE, "nil">>), 0, randomized,
                                 VolumeMaxElapsedTime) IN
            /\ wait' = b
            /\ pc' = WaitPc(b)
            /\ lst' = lst
       ELSE /\ lst' = VolumeLst(waitStyle(op.arg))
            /\ pc' = "list_first"
            /\ wait' = wait
    /\ UNCHANGED <<op, ret, calls, poll, found, client, config, seen>>

\* the listing came back: checkStatus decides, the backoff retries or gives up
WaitLookup ==
    /\ pc = "list_ret"
    /\ op.name = "createVolumeByStyle"
    /\ \E latency \in 0..MaxLatency, randomized \in RandomizedIntervals(wait.currentInterval) :
        LET f == getVolumeByNameAndStyle(lst.out)
            e == checkVolumeExistsByNameAndStyle(lst.out)
            w == [wait EXCEPT !.checks = Min(wait.checks + 1, MaxCounted),
                              !.sawOne = /\ lst.pagesNum = 1
                                         /\ Len(lst.pagesRecs) = 1
                                         /\ lst.pagesRecs[1].present]
            b == IF f.err = "panic" THEN [w EXCEPT !.out = "panic"]
                 ELSE RetryNotify(w, checkStatus(e), latency, randomized, VolumeMaxElapsedTime) IN
        /\ wait' = b
        /\ pc' = WaitPc(b)
    /\ lst' = Popped(lst)
    /\ UNCHANGED <<op, ret, calls, poll, found, client, config, seen>>

CreateReturn ==
    /\ pc = "wait_ret"
    /\ ret' = wait.out
    /\ pc' = "done"
    /\ UNCHANGED <<op, calls, lst, poll, wait, found, client, config, seen>>

(***************************************************************************)
(* Quota rules.                                                            *)
(***************************************************************************)
DiskLimits == {"", "100", "abc"}
\* strconv.ParseInt(diskLimit, 10, 64) succeeds
ParsesInt(diskLimit) == diskLimit \in {"100"}

\* QuotaGetEntry on the merged listing of matching rules: the rule and the
\* error; the payload's links are still those of the first page
QuotaGetEntry(out) ==
    IF out.err THEN Found(NilRec, "lookup error")
    ELSE IF ~out.nonNil THEN Found(NilRec, "nil")
    ELSE IF ~out.payload.present THEN Found(NilRec, "NotFound")
    ELSE IF Len(out.payload.recs) > 1 THEN Found(NilRec, "more than one quota rule entry")
    ELSE IF Len(out.payload.recs) = 1 THEN Found(out.payload.recs[1], "nil")
    ELSE IF HasNextLink(out.payload) THEN Found(NilRec, "more than one quota rule entry")
    ELSE Found(NilRec, "NotFound")

IsNotFoundError(err) == err = "NotFound"

\* QuotaAddEntry up to its request: the error it returns, or "nil"
QuotaAddEntryCheck(diskLimit) ==
    IF diskLimit # "" /\ ~ParsesInt(diskLimit) THEN "cannot process hard disk limit value"
    ELSE "nil"

\* QuotaSetEntry taking every lookup error for not-found
QuotaSetEntry_AnyErrorCreates(f, diskLimit) ==
    IF f.err # "nil"
    THEN IF QuotaAddEntryCheck(diskLimit) = "nil" THEN [next |-> "create", ret |-> "none"]
         ELSE [next |-> "return", ret |-> QuotaAddEntryCheck(diskLimit)]
    ELSE IF ~f.volume.present THEN [next |-> "return", ret |-> "panic"]
    ELSE IF f.volume.uuid = NilStr
         THEN [next |-> "return", ret |-> "unexpected response from quota entry lookup"]
    ELSE IF diskLimit = ""
         THEN [next |-> "return", ret |-> "invalid hard disk limit value"]
    ELSE IF ~ParsesInt(diskLimit)
         THEN [next |-> "return", ret |-> "cannot process hard disk limit value"]
    ELSE [next |-> "modify", ret |-> "none"]

\* QuotaSetEntry after the lookup: the request it goes on to ("create",
\* "modify") or the error it returns; a nil rule without error is dereferenced
QuotaSetEntry(f, diskLimit) ==
    IF f.err # "nil" /\ ~IsNotFoundError(f.err) THEN [next |-> "return", ret |-> f.err]
    ELSE IF f.err # "nil"
         THEN IF QuotaAddEntryCheck(diskLimit) = "nil" THEN [next |-> "create", ret |-> "none"]
              ELSE [next |-> "return", ret |-> QuotaAddEntryCheck(diskLimit)]
    ELSE IF ~f.volume.present THEN [next |-> "return", ret |-> "panic"]
    ELSE IF f.volume.uuid = NilStr
         THEN [next |-> "return", ret |-> "unexpected response from quota entry lookup"]
    ELSE IF diskLimit = ""
         THEN [next |-> "return", ret |-> "invalid hard disk limit value"]
    ELSE IF ~ParsesInt(diskLimit)
         THEN [next |-> "return", ret |-> "cannot process hard disk limit value"]
    ELSE [next |-> "modify", ret |-> "none"]

StartQuotaSetEntry ==
    /\ pc = "idle"
    /\ \E diskLimit \in DiskLimits : op' = Op("QuotaSetEntry", diskLimit)
    /\ pc' = "list_first"
    /\ ret' = "none"
    /\ calls' = <<>>
    /\ lst' = IdleLst
    /\ poll' = IdlePoll
    /\ wait' = IdleWait
    /\ found' = NotLooked
    /\ UNCHANGED <<client, config, seen>>

QuotaLookup ==
    /\ pc = "list_ret"
    /\ op.name = "QuotaSetEntry"
    /\ LET f == QuotaGetEntry(lst.out)
           d == QuotaSetEntry(f, op.arg) IN
        /\ found' = f
        /\ ret' = d.ret
        /\ pc' = IF d.next = "return" THEN "done" ELSE "quota_" \o d.next
        /\ lst' = Popped(lst)
    /\ UNCHANGED <<op, calls, poll, wait, client, config, seen>>

QuotaRuleCreate ==
    /\ pc = "quota_create"
    /\ calls' = Log(calls, Call("QuotaRuleCreate", NilStr))
    /\ \E resp \in Accepted :
        IF resp = "error" \/ resp = "nilresult"
        THEN /\ ret' = IF resp = "error" THEN "QuotaRuleCreate error"
                       ELSE "unexpected response from quota rule create"
             /\ pc' = "done"
             /\ poll' = poll
        ELSE /\ ret' = "none"
             /\ poll' = PollEntry(resp)
             /\ pc' = PollPc(PollEntry(resp))
    /\ UNCHANGED <<op, lst, wait, found, client, config, seen>>

QuotaRuleModify ==
    /\ pc = "quota_modify"
    /\ calls' = Log(calls, Call("QuotaRuleModify", found.volume.uuid))
    /\ \E resp \in Accepted :
        IF resp = "error" \/ resp = "nilresult"
        THEN /\ ret' = IF resp = "error" THEN "QuotaRuleModify error"
                       ELSE "unexpected response from quota rule modify"
             /\ pc' = "done"
             /\ poll' = poll
        ELSE /\ ret' = "none"
             /\ poll' = PollEntry(resp)
             /\ pc' = PollPc(PollEntry(resp))
    /\ UNCHANGED <<op, lst, wait, found, client, config, seen>>

QuotaReturn ==
    /\ pc = "poll_ret"
    /\ op.name = "QuotaSetEntry"
    /\ ret' = poll.out
    /\ pc' = "done"
    /\ UNCHANGED <<op, calls, lst, poll, wait, found, client, config, seen>>

(***************************************************************************)
(* Qtrees.                                                                 *)
(***************************************************************************)
\* QtreeCount that decrements every count it is given
QtreeCount_NoFloor(out) ==
    IF out.err THEN [count |-> 0, err |-> "lookup error"]
    ELSE IF ~out.nonNil THEN [count |-> 0, err |-> "nil"]
    ELSE IF ~out.payload.present \/ out.payload.num = NilNum THEN [count |-> 0, err |-> "nil"]
    ELSE [count |-> out.payload.num - 1, err |-> "nil"]

\* QtreeCount on what its listing came to: (int, error).  Its loop sums
\* NumRecords and appends no records
QtreeCount(out) ==
    IF out.err THEN [count |-> 0, err |-> "lookup error"]
    ELSE IF ~out.nonNil THEN [count |-> 0, err |-> "nil"]
    ELSE IF ~out.payload.present \/ out.payload.num = NilNum THEN [count |-> 0, err |-> "nil"]
    ELSE IF out.payload.num \in {0, 1} THEN [count |-> 0, err |-> "nil"]
    ELSE [count |-> out.payload.num - 1, err |-> "nil"]

StartQtreeCount ==
    /\ pc = "idle"
    /\ op' = Op("QtreeCount", NilStr)
    /\ pc' = "list_first"
    /\ ret' = "none"
    /\ calls' = <<>>
    /\ lst' = IdleLst
    /\ poll' = IdlePoll
    /\ wait' = IdleWait
    /\ found' = NotLooked
    /\ UNCHANGED <<client, config, seen>>

QtreeCountReturn ==
    /\ pc = "list_ret"
    /\ op.name = "QtreeCount"
    /\ ret' = QtreeCount(lst.out)
    /\ pc' = "done"
    /\ UNCHANGED <<op, calls, lst, poll, wait, found, client, config, seen>>

\* (bool, string, error) as QtreeExists returns them
Exists(exists, flexvol, err) == [exists |-> exists, flexvol |-> flexvol, err |-> err]

\* QtreeExists that takes the first of several matches
QtreeExists_FirstOfMany(out) ==
    IF out.err THEN Exists(FALSE, "", "lookup error")
    ELSE IF ~out.nonNil THEN Exists(FALSE, "", "nil")
    ELSE IF ~out.payload.present \/ out.payload.num = NilNum THEN Exists(FALSE, "", "nil")
    ELSE IF out.payload.num < 1 THEN Exists(FALSE, "", "nil")
    ELSE IF Len(out.payload.recs) = 0 THEN Exists(FALSE, "", "panic")
    ELSE IF ~out.payload.recs[1].present THEN Exists(FALSE, "", "panic")
    ELSE IF out.payload.recs[1].name = NilStr THEN Exists(FALSE, "", "nil")
    ELSE Exists(TRUE, out.payload.recs[1].name, "nil")

\* QtreeExists on what its listing came to.  A record's name stands for
\* its Volume.Name (nil when Volume or Volume.Name is nil).  Indexing a
\* slice without records, or reading a nil record, panics
QtreeExists(out) ==
    IF out.err THEN Exists(FALSE, "", "lookup error")
    ELSE IF ~out.nonNil THEN Exists(FALSE, "", "nil")
    ELSE IF ~out.payload.present \/ out.payload.num = NilNum THEN Exists(FALSE, "", "nil")
    ELSE IF out.payload.num # 1 THEN Exists(FALSE, "", "nil")
    ELSE IF Len(out.payload.recs) = 0 THEN Exists(FALSE, "", "panic")
    ELSE IF ~out.payload.recs[1].present THEN Exists(FALSE, "", "panic")
    ELSE IF out.payload.recs[1].name = NilStr THEN Exists(FALSE, "", "nil")
    ELSE Exists(TRUE, out.payload.recs[1].name, "nil")

StartQtreeExists ==
    /\ pc = "idle"
    /\ op' = Op("QtreeExists", NilStr)
    /\ pc' = "list_first"
    /\ ret' = "none"
    /\ calls' = <<>>
    /\ lst' = IdleLst
    /\ poll' = IdlePoll
    /\ wait' = IdleWait
    /\ found' = NotLooked
    /\ UNCHANGED <<client, config, seen>>

QtreeExistsReturn ==
    /\ pc = "list_ret"
    /\ op.name = "QtreeExists"
    /\ ret' = QtreeExists(lst.out)
    /\ pc' = "done"
    /\ UNCHANGED <<op, calls, lst, poll, wait, found, client, config, seen>>

(***************************************************************************)
(* The client itself: ONTAP version and SVM.                               *)
(***************************************************************************)
\* NewRestClient(config, SVM, driverName): OntapVersion is left empty
NewRestClient(SVM) == [OntapVersion |-> "", svmName |-> SVM, svmUUID |-> ""]
NeverCalled == [version |-> "", later |-> FALSE, ok |-> FALSE]

\* what ClusterGet returns: Payload.Version with Generation, Major, Minor *int64
Cluster(kind, g, m, n) == [kind |-> kind, generation |-> g, major |-> m, minor |-> n]
ClusterResponses ==
    {Cluster(k, NilNum, NilNum, NilNum) : k \in {"error", "nilresult", "nilpayload", "nilversion"}}
    \cup {Cluster("version", g, m, n) : g \in {NilNum, 9}, m \in {NilNum, 12, 13}, n \in {NilNum, 0, 1}}

\* fmt.Sprintf("%d.%d.%d", ...)
FormatVersion(v) ==
    ToString(v.generation) \o "." \o ToString(v.major) \o "." \o ToString(v.minor)

\* SystemGetOntapVersion run on the receiver c: the version and error it
\* returns, whether it asked the cluster, and c as the method leaves it
SystemGetOntapVersion(c, resp) ==
    IF c.OntapVersion # ""
    THEN [c |-> c, version |-> c.OntapVersion, err |-> "nil", asked |-> FALSE]
    ELSE IF resp.kind = "error"
         THEN [c |-> c, version |-> "unknown", err |-> "ClusterGet error", asked |-> TRUE]
    ELSE IF resp.kind \in {"nilresult", "nilpayload", "nilversion"}
            \/ resp.generation = NilNum \/ resp.major = NilNum \/ resp.minor = NilNum
         THEN [c |-> c, version |-> "unknown", err |-> "could not determine cluster version",
               asked |-> TRUE]
    ELSE [c |-> [c EXCEPT !.OntapVersion = FormatVersion(resp)],
          version |-> FormatVersion(resp), err |-> "nil", asked |-> TRUE]

\* a call of client.SystemGetOntapVersion(ctx).  The method has a value
\* receiver (func (c RestClient) ...): it runs on a copy of the client, and
\* the copy, with the field it set, is dropped when the method returns
GetOntapVersion ==
    /\ pc = "idle"
    /\ \E resp \in ClusterResponses :
        LET r == SystemGetOntapVersion(client, resp) IN
        /\ ret' = IF r.err = "nil" THEN r.version ELSE r.err
        /\ calls' = IF r.asked THEN <<Call("ClusterGet", NilStr)>> ELSE <<>>
        /\ seen' = [version |-> IF seen.version = "" /\ r.err = "nil" THEN r.version
                                ELSE seen.version,
                    later |-> seen.version # "",
                    ok |-> r.err = "nil"]
    /\ client' = client
    /\ op' = Op("SystemGetOntapVersion", NilStr)
    /\ pc' = "done"
    /\ lst' = IdleLst
    /\ poll' = IdlePoll
    /\ wait' = IdleWait
    /\ found' = NotLooked
    /\ UNCHANGED config

\* ValidatePayloadExists on the result of a list operation
ValidatePayloadExists(out) ==
    IF ~out.nonNil THEN "result was nil"
    ELSE IF ~out.payload.present THEN "result payload was nil"
    ELSE "nil"

\* SvmGetByName on what SvmList returned
SvmGetByName(out) ==
    IF out.err THEN Found(NilRec, "lookup error")
    ELSE IF ValidatePayloadExists(out) # "nil" THEN Found(NilRec, ValidatePayloadExists(out))
    ELSE IF out.payload.num # NilNum /\ out.payload.num = 1 /\ ~out.payload.recsNil
         THEN IF Len(out.payload.recs) = 0 THEN Found(NilRec, "panic")
              ELSE Found(out.payload.recs[1], "nil")
    ELSE Found(NilRec, "unexpected result")

Ensured(cfg, c, r) == [config |-> cfg, client |-> c, ret |-> r]
errorMsg == "cannot derive SVM to use; please specify SVM in config file"

\* EnsureSVMWithRest taking the first SVM of several
EnsureSVMWithRest_FirstOfMany(cfg, c, out) ==
    IF cfg.SVM # ""
    THEN LET vserver == SvmGetByName(out) IN
         IF vserver.err = "panic" THEN Ensured(cfg, c, "panic")
         ELSE IF vserver.err # "nil" THEN Ensured(cfg, c, "unable to get details for SVM")
         ELSE IF ~vserver.volume.present THEN Ensured(cfg, c, "panic")
         ELSE IF vserver.volume.uuid # NilStr
              THEN Ensured(cfg, [c EXCEPT !.svmUUID = vserver.volume.uuid], "nil")
         ELSE Ensured(cfg, c, "nil")
    ELSE IF out.err THEN Ensured(cfg, c, "lookup error")
    ELSE IF ValidatePayloadExists(out) # "nil"
         THEN Ensured(cfg, c, "cannot derive SVM to use; no payload")
    ELSE IF out.payload.recsNil \/ out.payload.num = NilNum \/ out.payload.num < 1
         THEN Ensured(cfg, c, errorMsg)
    ELSE IF Len(out.payload.recs) = 0 THEN Ensured(cfg, c, "panic")
    ELSE LET derivedSVM == out.payload.recs[1] IN
         IF ~derivedSVM.present THEN Ensured(cfg, c, "panic")
         ELSE IF derivedSVM.name = NilStr THEN Ensured(cfg, c, errorMsg)
         ELSE IF derivedSVM.uuid = NilStr
              THEN Ensured([cfg EXCEPT !.SVM = derivedSVM.name],
                           [c EXCEPT !.svmName = derivedSVM.name], errorMsg)
         ELSE Ensured([cfg EXCEPT !.SVM = derivedSVM.name],
                      [c EXCEPT !.svmName = derivedSVM.name, !.svmUUID = derivedSVM.uuid],
                      "nil")

\* EnsureSVMWithRest once SvmList (by name, or "*") has returned
EnsureSVMWithRest(cfg, c, out) ==
    IF cfg.SVM # ""
    THEN LET vserver == SvmGetByName(out) IN
         IF vserver.err = "panic" THEN Ensured(cfg, c, "panic")
         ELSE IF vserver.err # "nil" THEN Ensured(cfg, c, "unable to get details for SVM")
         ELSE IF ~vserver.volume.present THEN Ensured(cfg, c, "panic")
         ELSE IF vserver.volume.uuid # NilStr
              THEN Ensured(cfg, [c EXCEPT !.svmUUID = vserver.volume.uuid], "nil")
         ELSE Ensured(cfg, c, "nil")
    ELSE IF out.err THEN Ensured(cfg, c, "lookup error")
    ELSE IF ValidatePayloadExists(out) # "nil"
         THEN Ensured(cfg, c, "cannot derive SVM to use; no payload")
    ELSE IF out.payload.recsNil \/ out.payload.num = NilNum \/ out.payload.num # 1
         THEN Ensured(cfg, c, errorMsg)
    ELSE IF Len(out.payload.recs) = 0 THEN Ensured(cfg, c, "panic")
    ELSE LET derivedSVM == out.payload.recs[1] IN
         IF ~derivedSVM.present THEN Ensured(cfg, c, "panic")
         ELSE IF derivedSVM.name = NilStr THEN Ensured(cfg, c, errorMsg)
         ELSE IF derivedSVM.uuid = NilStr
              THEN Ensured([cfg EXCEPT !.SVM = derivedSVM.name],
                           [c EXCEPT !.svmName = derivedSVM.name], errorMsg)
         ELSE Ensured([cfg EXCEPT !.SVM = derivedSVM.name],
                      [c EXCEPT !.svmName = derivedSVM.name, !.svmUUID = derivedSVM.uuid],
                      "nil")

\* NewRestClientFromOntapConfig: a new client for the configured SVM, then
\* EnsureSVMWithRest, which begins by listing SVMs
NewRestClientFromOntapConfig ==
    /\ pc = "idle"
    /\ \E SVM \in {"", "n1"} :
        /\ config' = [SVM |-> SVM]
        /\ client' = NewRestClient(SVM)
        /\ op' = Op("EnsureSVMWithRest", SVM)
    /\ seen' = NeverCalled
    /\ pc' = "list_first"
    /\ ret' = "none"
    /\ calls' = <<>>
    /\ lst' = IdleLst
    /\ poll' = IdlePoll
    /\ wait' = IdleWait
    /\ found' = NotLooked

EnsureSVM ==
    /\ pc = "list_ret"
    /\ op.name = "EnsureSVMWithRest"
    /\ LET r == EnsureSVMWithRest(config, client, lst.out) IN
        /\ config' = r.config
        /\ client' = r.client
        /\ ret' = r.ret
    /\ pc' = "done"
    /\ UNCHANGED <<op, calls, lst, poll, wait, found, seen>>

ListReturn ==
    /\ pc = "list_ret"
    /\ op.name = "List"
    /\ ret' = IF lst.out.err THEN "err" ELSE IF lst.out.nonNil THEN "result" ELSE "nil"
    /\ pc' = "done"
    /\ UNCHANGED <<op, calls, lst, poll, wait, found, client, config, seen>>

\* the caller takes the result; the client is ready for the next operation
Done ==
    /\ pc = "done"
    /\ pc' = "idle"
    /\ op' = NoOp
    /\ ret' = "none"
    /\ calls' = <<>>
    /\ lst' = IdleLst
    /\ poll' = IdlePoll
    /\ wait' = IdleWait
    /\ found' = NotLooked
    /\ UNCHANGED <<client, config, seen>>

Init ==
    /\ pc = "idle"
    /\ op = NoOp
    /\ ret = "none"
    /\ calls = <<>>
    /\ lst = IdleLst
    /\ poll = IdlePoll
    /\ wait = IdleWait
    /\ found = NotLooked
    /\ config = [SVM |-> ""]
    /\ client = NewRestClient(config.SVM)
    /\ seen = NeverCalled

Next ==
    \/ StartList
    \/ ListFirst
    \/ ListNext
    \/ ListReturn
    \/ StartPoll
    \/ PollFetch
    \/ PollFinal
    \/ PollReturn
    \/ StartSetSize
    \/ SetSizeLookup
    \/ VolumeModify
    \/ SetSizeReturn
    \/ StartCreate
    \/ VolumeCreate
    \/ CreatePolled
    \/ WaitCheck
    \/ WaitLookup
    \/ CreateReturn
    \/ StartQuotaSetEntry
    \/ QuotaLookup
    \/ QuotaRuleCreate
    \/ QuotaRuleModify
    \/ QuotaReturn
    \/ Done

Spec == Init /\ [][Next]_vars

\* the operations on the client's own state: its version and its SVM
ClientNext ==
    \/ GetOntapVersion
    \/ NewRestClientFromOntapConfig
    \/ ListFirst
    \/ ListNext
    \/ EnsureSVM
    \/ Done

ClientSpec == Init /\ [][ClientNext]_vars

\* PollJobStatus and IsJobFinished called on their own, by a program that
\* keeps running: every step that can be taken is eventually taken
PollNext ==
    \/ StartIsJobFinished
    \/ JobFetched
    \/ StartPoll
    \/ PollFetch
    \/ PollFinal
    \/ PollReturn
    \/ Done

PollSpec == Init /\ [][PollNext]_vars /\ WF_vars(PollNext)

\* the qtree queries, each a listing followed by a decision
QtreeNext ==
    \/ StartQtreeCount
    \/ ListFirst
    \/ ListNext
    \/ QtreeCountReturn
    \/ StartQtreeExists
    \/ QtreeExistsReturn
    \/ Done

QtreeSpec == Init /\ [][QtreeNext]_vars

(***************************************************************************)
(* Properties.                                                             *)
(***************************************************************************)
PollReturned == pc = "poll_ret" /\ poll.out # "panic"

C2_NilOnlyOnSuccess ==
    PollReturned =>
        /\ (poll.out = "nil" => poll.final /\ poll.lastState = JobStateSuccess)
        /\ (poll.final /\ poll.lastState = JobStateFailure => poll.out = "RestError")
        /\ (poll.lastState # JobStateSuccess => poll.out \notin {"nil", "none"})

C2_Witness ==
    /\ PollReturned
    /\ poll.final
    /\ poll.lastState = JobStateFailure
    /\ poll.out = "RestError"

\* C3: PollJobStatus terminates whatever the job does: a job that never
\* reports success or failure is polled only while the elapsed time is
\* within the 2 minute cap, and then a non-nil error is returned.
C3_PollTerminates ==
    /\ (pc = "poll_fetch") ~> (pc = "poll_ret")
    /\ [](pc = "poll_fetch" => poll.elapsed <= JobMaxElapsedTime)
    /\ [](PollReturned /\ poll.fetches > 0 /\ ~poll.sawTerminal =>
            poll.stopped /\ poll.out \notin {"nil", "none"})

C3_Witness ==
    /\ PollReturned
    /\ poll.stopped
    /\ ~poll.sawTerminal
    /\ poll.lastState \in NonTerminalStates
    /\ poll.elapsed > 60
    /\ poll.out = "job not yet done"

ListReturned == pc = "list_ret" /\ lst.out.returned

\* C4: when every page carries a payload and a record count, a list
\* operation returns the records of all pages concatenated in request order
\* and the sum of the pages' NumRecords, and the last page it took was one
\* without a next link.
C4_MergedPages ==
    (ListReturned /\ lst.counted) =>
        /\ ~lst.out.err
        /\ lst.out.nonNil
        /\ lst.out.payload.recs = lst.pagesRecs
        /\ lst.out.payload.num = lst.pagesNum
        /\ ~lst.prevNext.present

C4_Witness ==
    /\ ListReturned
    /\ lst.counted
    /\ lst.nReq = 3
    /\ lst.out.payload.recs = <<Rec("n1", "u1"), Rec("n1", NilStr), Rec(NilStr, "u2")>>
    /\ lst.out.payload.num = 3

SetSizeOp == op.name = "setVolumeSizeByNameAndStyle"

\* C6: setVolumeSizeByNameAndStyle calls in the order lookup, at most one
\* modify, job polling; the modify is issued only after a lookup that found
\* exactly one volume with a UUID, and addresses that UUID; polling starts
\* only on the job handle of an accepted modify; a failed step ends the
\* operation with no further call.
C6_SetSizeOrder ==
    /\ [](SetSizeOp =>
            /\ Len(calls) <= 3
            /\ (Len(calls) >= 1 => calls[1] = Call("CollectionGet", op.arg))
            /\ (Len(calls) >= 2 =>
                    /\ calls[2].api = "VolumeModify"
                    /\ found.err = "nil"
                    /\ found.volume.present
                    /\ found.volume.uuid # NilStr
                    /\ calls[2].arg = found.volume.uuid)
            /\ (Len(calls) >= 3 => calls[3].api = "JobGet" /\ poll.payload = "job")
            /\ (pc = "done" /\ Len(calls) = 1 => ret # "nil")
            /\ (pc = "done" /\ ret = "nil" => Len(calls) = 3))
    /\ [][SetSizeOp /\ pc = "list_ret" /\ pc' = "modify"
            => /\ ~lst.out.err
               /\ lst.pagesNum = 1
               /\ Len(lst.pagesRecs) = 1
               /\ lst.pagesRecs[1].uuid # NilStr]_vars
    /\ [][SetSizeOp /\ pc = "modify" /\ pc' \in {"poll_fetch", "poll_ret"}
            => poll'.payload \in JobLinks]_vars

C6_Witness ==
    /\ SetSizeOp
    /\ pc = "done"
    /\ ret = "nil"
    /\ calls = <<Call("CollectionGet", op.arg), Call("VolumeModify", "u1"), Call("JobGet", NilStr)>>

CreateOp == op.name = "createVolumeByStyle"

\* C7: createVolumeByStyle returns nil only when the create request was
\* accepted, PollJobStatus returned nil on a job in state success, and an
\* existence check made after that found one volume of the style asked for;
\* when PollJobStatus returns an error no existence check is made and that
\* error is returned.
C7_CreateChecked ==
    CreateOp =>
        /\ Len(calls) <= 3
        /\ (Len(calls) >= 1 => calls[1].api = "VolumeCreate")
        /\ (Len(calls) >= 2 => calls[2].api = "JobGet")
        /\ (Len(calls) >= 3 => calls[3] = Call("CollectionGet", op.arg))
        /\ (pc = "done" /\ ret = "nil" =>
                /\ Len(calls) = 3
                /\ poll.payload = "job"
                /\ poll.out = "nil"
                /\ poll.lastState = JobStateSuccess
                /\ wait.sawOne)
        /\ (poll.out \notin {"nil", "none"} =>
                /\ Count(calls, "CollectionGet") = 0
                /\ (pc = "done" => ret = poll.out))

C7_Witness ==
    /\ CreateOp
    /\ op.arg = VolumeStyleFlexgroup
    /\ pc = "done"
    /\ ret = "nil"
    /\ wait.checks >= 2
    /\ wait.sawOne

\* C8: once a call of SystemGetOntapVersion on a client has succeeded, a
\* later call on that client asks the cluster nothing and returns the same
\* version string.
C8_VersionCached ==
    (pc = "done" /\ op.name = "SystemGetOntapVersion" /\ seen.later) =>
        /\ calls = <<>>
        /\ ret = seen.version

DeriveReturned == pc = "done" /\ op.name = "EnsureSVMWithRest" /\ op.arg = ""

\* C9: with no SVM configured EnsureSVMWithRest returns nil only when the
\* listing reported exactly one SVM with name and UUID, and has then set the
\* config's SVM and the client's SVM name and UUID to them; when the listing
\* reports no SVM or several, it returns errorMsg and sets nothing.
C9_DeriveOnlyUnique ==
    DeriveReturned =>
        /\ (ret = "nil" =>
                /\ ~lst.out.err
                /\ lst.pagesNum = 1
                /\ Len(lst.pagesRecs) = 1
                /\ lst.pagesRecs[1].present
                /\ lst.pagesRecs[1].name # NilStr
                /\ lst.pagesRecs[1].uuid # NilStr
                /\ config.SVM = lst.pagesRecs[1].name
                /\ client.svmName = lst.pagesRecs[1].name
                /\ client.svmUUID = lst.pagesRecs[1].uuid)
        /\ (lst.counted /\ lst.pagesNum # 1 =>
                /\ ret = errorMsg
                /\ config.SVM = ""
                /\ client = NewRestClient(""))

C9_Witness ==
    /\ DeriveReturned
    /\ ret = "nil"
    /\ config.SVM = "n1"
    /\ client.svmName = "n1"
    /\ client.svmUUID = "u1"

QuotaOp == op.name = "QuotaSetEntry"
QuotaReturned == QuotaOp /\ pc = "done" /\ ret # "panic"
Creates == Count(calls, "QuotaRuleCreate")
Modifies == Count(calls, "QuotaRuleModify")

\* C10 as stated: not-found leads to exactly one create and no modify, one
\* rule found to exactly one modify of that rule and no create, any other
\* lookup error to neither and to that error.
C10_ExactlyOneRequest ==
    QuotaReturned =>
        /\ (found.err = "NotFound" => Creates = 1 /\ Modifies = 0)
        /\ (found.err = "nil" /\ found.volume.present =>
                /\ Modifies = 1
                /\ Creates = 0
                /\ calls[Len(calls) - (IF Count(calls, "JobGet") > 0 THEN 1 ELSE 0)]
                        = Call("QuotaRuleModify", found.volume.uuid))
        /\ (found.err \notin {"nil", "NotFound"} =>
                Creates = 0 /\ Modifies = 0 /\ ret = found.err)

\* C10: QuotaSetEntry issues at most one request that changes a rule.  After
\* not-found it is never a modify, and it is exactly one create when the
\* disk limit is empty or an integer.  After a lookup that returned a rule it
\* is never a create, a modify is addressed to the rule's UUID, and it is
\* exactly one modify when the rule has a UUID and the disk limit is an
\* integer.  After any other lookup error nothing is issued and that error
\* is returned.
C10_QuotaDispatch ==
    QuotaOp =>
        /\ Creates + Modifies <= 1
        /\ (found.err = "NotFound" => Modifies = 0)
        /\ (found.err = "nil" /\ found.volume.present =>
                /\ Creates = 0
                /\ \A i \in 1..Len(calls) :
                        calls[i].api = "QuotaRuleModify" =>
                            calls[i].arg = found.volume.uuid /\ calls[i].arg # NilStr)
        /\ (found.err \notin {"nil", "NotFound", "none"} =>
                /\ Creates = 0
                /\ Modifies = 0
                /\ (pc = "done" => ret = found.err))
        /\ (QuotaReturned /\ found.err = "NotFound" =>
                Creates = (IF op.arg = "" \/ ParsesInt(op.arg) THEN 1 ELSE 0))
        /\ (QuotaReturned /\ found.err = "nil" /\ found.volume.present
                /\ found.volume.uuid # NilStr /\ ParsesInt(op.arg) => Modifies = 1)

C10_Witness ==
    /\ QuotaReturned
    /\ found.err = "nil"
    /\ found.volume.uuid = "u1"
    /\ calls = <<Call("CollectionGet", NilStr), Call("QuotaRuleModify", "u1"),
                 Call("JobGet", NilStr)>>
    /\ ret = "nil"

\* the lookup of QuotaSetEntry answered well: not-found, or one rule with its UUID
QuotaLookupOk ==
    \/ found.err = "NotFound"
    \/ found.err = "nil" /\ found.volume.present /\ found.volume.uuid # NilStr

\* no remote call of QuotaSetEntry failed: a request issued was accepted
\* with a job handle, and the job was polled to success
QuotaCallsOk ==
    /\ ret \notin {"QuotaRuleCreate error", "unexpected response from quota rule create",
                   "QuotaRuleModify error", "unexpected response from quota rule modify"}
    /\ poll.out \in {"none", "nil"}

\* C11: QuotaSetEntry called with an empty disk limit returns nil when no
\* remote call fails, whether the lookup reported not-found (create) or
\* returned the rule (update).
C11_EmptyLimitSucceeds ==
    (QuotaReturned /\ op.arg = "" /\ QuotaLookupOk /\ QuotaCallsOk) => ret = "nil"

QtreeCounted == pc = "done" /\ op.name = "QtreeCount"

\* C12: QtreeCount never returns a negative number; when no request failed
\* it returns n - 1 for n >= 1 and 0 for n = 0, n being the record counts of
\* the pages received added up, and 0 when the result, its payload or its
\* record count is missing.
C12_QtreeCount ==
    QtreeCounted =>
        /\ ret.count >= 0
        /\ (~lst.out.err =>
                /\ ret.err = "nil"
                /\ ret.count = (IF lst.pagesNum >= 1 THEN lst.pagesNum - 1 ELSE 0))
        /\ (~lst.out.err /\ (~lst.out.nonNil \/ ~lst.out.payload.present
                             \/ lst.out.payload.num = NilNum) => ret.count = 0)

C12_Witness ==
    /\ QtreeCounted
    /\ lst.nReq = 3
    /\ lst.pagesNum = 3
    /\ ret = [count |-> 2, err |-> "nil"]

QtreeLooked == pc = "done" /\ op.name = "QtreeExists"

\* the pages received count one record, and it is there and names its volume
OneNamedQtree ==
    /\ ~lst.out.err
    /\ lst.pagesNum = 1
    /\ Len(lst.pagesRecs) = 1
    /\ lst.pagesRecs[1].present
    /\ lst.pagesRecs[1].name # NilStr

\* C13: QtreeExists returns true exactly when the record counts of the
\* pages received add up to one and that record names its volume, and then
\* returns that name; when they add up to zero or to more than one it
\* returns false, "" and nil; it returns an error exactly when a request
\* failed.  (It returns nothing, but panics, only when the count is one and
\* the record is not there.)
C13_QtreeExists ==
    QtreeLooked =>
        /\ (ret.exists <=> OneNamedQtree)
        /\ (ret.exists => ret.flexvol = lst.pagesRecs[1].name /\ ret.err = "nil")
        /\ (~ret.exists => ret.flexvol = "")
        /\ (~lst.out.err /\ lst.pagesNum # 1 => ret = Exists(FALSE, "", "nil"))
        /\ (ret.err \notin {"nil", "panic"} <=> lst.out.err)
        /\ (ret.err = "panic" =>
                /\ lst.pagesNum = 1
                /\ (Len(lst.pagesRecs) = 0 \/ ~lst.pagesRecs[1].present))

C13_Witness ==
    /\ QtreeLooked
    /\ lst.nReq = 3
    /\ OneNamedQtree
    /\ ret = Exists(TRUE, "n1", "nil")

JobChecked == pc = "done" /\ op.name = "IsJobFinished" /\ ret # "panic"

\* C14: IsJobFinished returns (true, nil) exactly when the job fetched is in
\* state success or failure, (false, nil) exactly when it is paused, running
\* or queued, and (false, error) when the state is nil or unrecognised, when
\* the fetch failed, and when the handle lacks the job or its UUID; in that
\* last case it has issued no request.
C14_IsJobFinished ==
    JobChecked =>
        /\ (poll.isDone /\ ret = "nil"
                <=> op.arg = "job" /\ poll.lastState \in {"success", "failure"})
        /\ (~poll.isDone /\ ret = "nil"
                <=> op.arg = "job" /\ poll.lastState \in {"paused", "running", "queued"})
        /\ (op.arg # "job" \/ poll.lastState \in {NilStr, "bogus", "error"}
                => ~poll.isDone /\ ret # "nil")
        /\ (op.arg # "job" => calls = <<>>)
        /\ (op.arg = "job" => calls = <<Call("JobGet", NilStr)>>)

C14_Witness ==
    /\ JobChecked
    /\ op.arg = "job"
    /\ poll.lastState = JobStateFailure
    /\ poll.isDone
    /\ ret = "nil"
    /\ calls = <<Call("JobGet", NilStr)>>

\* the first page of a listing has arrived and HasNextLink has judged it
FirstPageJudged == lst.nReq = 1 /\ pc \in {"list_next", "list_ret"}

\* C15: HasNextLink is true of a page exactly when the page has a Links.Next
\* whose Href is a non-empty string: the loop is entered after the first
\* page exactly then.
C15_HasNextLink ==
    FirstPageJudged =>
        (pc = "list_next" <=> /\ lst.prevNext.present
                              /\ lst.prevNext.href \notin {NilStr, ""})

\* a request of a listing has been sent and answered
RequestSent == lst.nReq >= 1 /\ pc \in {"list_next", "list_ret"}

\* C16: a follow-up request carries the original parameters, each replaced
\* by the value the next link's URL gives it, and the parameters only that
\* URL names; with a next link whose href is nil or empty, and on the first
\* request, the parameters are the original ones.
C16_NextLinkOverrides ==
    RequestSent =>
        /\ (lst.nReq = 1 \/ lst.lastReq.href \in {NilStr, ""} =>
                lst.sent = [k \in ParamNames |->
                                IF k = "fields" THEN "**"
                                ELSE IF k = "name" THEN "*" ELSE NilStr])
        /\ (lst.lastReq.href = "h1" =>
                /\ lst.sent["start.uuid"] = "u1"
                /\ lst.sent["fields"] = "**"
                /\ lst.sent["name"] = "*"
                /\ lst.sent["max_records"] = NilStr)
        /\ (lst.lastReq.href = "h2" =>
                /\ lst.sent["start.uuid"] = "u2"
                /\ lst.sent["fields"] = "uuid"
                /\ lst.sent["name"] = "*"
                /\ lst.sent["max_records"] = "1")

C16_Witness ==
    /\ RequestSent
    /\ lst.nReq = 2
    /\ lst.lastReq.href = "h2"
    /\ lst.sent["fields"] = "uuid"
    /\ lst.sent["name"] = "*"
====
